---------------------------- MODULE Spec2Model ----------------------------
(***************************************************************************)
(* Loan amortization and debt-optimization engine of wealth-wise           *)
(* (src/src/utils/loanPrepayment.ts):                                      *)
(*   - calculateLoanPrepaymentImpact, the single-loan prepayment simulator *)
(*   - optimizeDebtRepayment, the avalanche / snowball optimizer           *)
(*                                                                         *)
(* Numbers.  A JavaScript number x is represented by the integer nearest   *)
(* to x * Scale (fixed point, four decimals).  Sums and differences are    *)
(* exact; a product or quotient is rounded to the nearest 1/Scale, which   *)
(* stands for the rounding of IEEE doubles at a coarser grain.             *)
(***************************************************************************)
EXTENDS Integers, Sequences, FiniteSets, TLC

\* Resolution of the number representation: 1/Scale of a currency unit.
Scale == 100 * 100

\* The number n (an integer literal of the source or of an input).
U(n) == n * Scale

Min(a, b) == IF a <= b THEN a ELSE b
Max(a, b) == IF a >= b THEN a ELSE b
Abs(a) == IF a < 0 THEN 0 - a ELSE a

\* x / y for integers x >= 0, y > 0, rounded to the nearest integer.
RoundDiv(x, y) == (2 * x + y) \div (2 * y)

\* a * b of two non-negative numbers, by long multiplication so that no
\* partial product overflows.
Mul(a, b) ==
    LET a1 == a \div Scale
        a0 == a % Scale
        b1 == b \div Scale
        b0 == b % Scale
    IN  a1 * b1 * Scale + a1 * b0 + a0 * b1 + RoundDiv(a0 * b0, Scale)

\* a / b of two numbers, a >= 0, b > 0.
Div(a, b) == (a \div b) * Scale + RoundDiv((a % b) * Scale, b)

\* Math.round(x): the nearest integer, halves rounded up.
MathRound(x) == ((x + (Scale \div 2)) \div Scale) * Scale

\* Math.round(x * 100) / 100: the nearest cent, halves rounded up.
Round2(x) == ((x + (Scale \div 200)) \div (Scale \div 100)) * (Scale \div 100)

\* annualInterestRate / 12 / 100
MonthlyRate(annualInterestRate) == RoundDiv(annualInterestRate, 1200)

\* The 0.01 and 1 currency-unit thresholds of the loops.
Cent == Scale \div 100


-----------------------------------------------------------------------------
(***************************************************************************)
(* Inputs of optimizeDebtRepayment                                         *)
(***************************************************************************)

\* Longest loans list of an input.
MaxLoans == 2

Loan(name, balance, rate, emi) ==
    [loan_name |-> name, outstanding_balance |-> U(balance),
     annual_interest_rate |-> U(rate), monthly_emi |-> U(emi)]

\* Loans that pass validation: names that repeat, equal rates, equal balances,
\* zero rates, a loan (Z) whose EMI equals its first month's interest, so that
\* it never amortises on its own, and a pair (C, D) whose two totals under a
\* surplus of 10 are 36.80 and 38.64, exactly 5% apart.
ValidLoans ==
    { Loan("A", 50, 60, 20), Loan("B", 100, 60, 60), Loan("B", 100, 120, 60),
      Loan("A", 50, 0, 20), Loan("Z", 100, 120, 10),
      Loan("C", 400, 0, 150), Loan("D", 500, 24, 50) }

\* Loans that validation rejects, one per condition of the check.
InvalidLoans ==
    { Loan("", 50, 60, 20), Loan("A", 0, 60, 20), Loan("A", 50, -12, 20),
      Loan("B", 50, 60, 0) }

LoanCatalog == ValidLoans \cup InvalidLoans

\* Loans that do not amortise within maxMonths on their EMI alone: Y's EMI (1)
\* is below its first month's interest (2), so its balance grows; W's EMI (6)
\* exceeds its interest (5) by so little that 600 months do not repay it.
SlowLoans == { Loan("Y", 800, 3, 1), Loan("W", 2000, 3, 6) }

RECURSIVE SeqsUpTo(_, _)
SeqsUpTo(S, n) ==
    IF n = 0 THEN { <<>> }
    ELSE LET shorter == SeqsUpTo(S, n - 1)
         IN  shorter \cup { Append(q, x) : q \in shorter, x \in S }

Surpluses == { U(0), U(10) }

\* risk_tolerance?: "low" | "medium" | "high"; "omitted" is the absent field.
RiskTolerances == { "low", "medium", "high", "omitted" }

\* A DebtRepaymentInput; hasLoans = FALSE is an input without a loans field.
\* The slow loans come alone: a run with one of them lasts maxMonths months.
DebtInputs ==
    { [hasLoans |-> TRUE, loans |-> l, monthly_surplus |-> s, risk_tolerance |-> r] :
        l \in SeqsUpTo(LoanCatalog, MaxLoans) \cup { << slow >> : slow \in SlowLoans },
        s \in Surpluses, r \in RiskTolerances }
    \cup
    { [hasLoans |-> FALSE, loans |-> <<>>, monthly_surplus |-> U(0),
       risk_tolerance |-> r] : r \in RiskTolerances }

-----------------------------------------------------------------------------
(***************************************************************************)
(* Pure parts of the optimizer                                             *)
(***************************************************************************)

\* const maxMonths = 600 of calculateLoanInterest and calculateStrategyInterest
maxMonths == 600

\* risk_tolerance = "medium" of the destructuring default
RiskOf(input) ==
    IF input.risk_tolerance = "omitted" THEN "medium" ELSE input.risk_tolerance

\* InvalidLoan with "monthly_emi < 0" for "monthly_emi <= 0".
InvalidLoan_NegativeEMI(loan) ==
    \/ loan.loan_name = ""
    \/ loan.outstanding_balance <= 0
    \/ loan.annual_interest_rate < 0
    \/ loan.monthly_emi < 0

\* The predicate of loans.some(...): the loan is rejected.
InvalidLoan(loan) ==
    \/ loan.loan_name = ""
    \/ loan.outstanding_balance <= 0
    \/ loan.annual_interest_rate < 0
    \/ loan.monthly_emi <= 0

\* The two validation throws of optimizeDebtRepayment.
InvalidDebtInput(input) ==
    \/ ~input.hasLoans
    \/ Len(input.loans) = 0
    \/ \E i \in 1..Len(input.loans) : InvalidLoan(input.loans[i])

\* AvalancheCmp with the tie on rates broken by balance ascending.
AvalancheCmp_AscendingTie(a, b) ==
    IF b.annual_interest_rate # a.annual_interest_rate
    THEN b.annual_interest_rate - a.annual_interest_rate
    ELSE a.outstanding_balance - b.outstanding_balance

\* AvalancheCmp that never tells two loans apart: the sort keeps the input order.
AvalancheCmp_KeepsInputOrder(a, b) == 0

\* The comparator of generateAvalancheOrder: negative when a goes first.
AvalancheCmp(a, b) ==
    IF b.annual_interest_rate # a.annual_interest_rate
    THEN b.annual_interest_rate - a.annual_interest_rate
    ELSE b.outstanding_balance - a.outstanding_balance

\* SnowballCmp with the tie on balances broken by rate ascending.
SnowballCmp_AscendingTie(a, b) ==
    IF a.outstanding_balance # b.outstanding_balance
    THEN a.outstanding_balance - b.outstanding_balance
    ELSE a.annual_interest_rate - b.annual_interest_rate

\* The comparator of generateSnowballOrder.
SnowballCmp(a, b) ==
    IF a.outstanding_balance # b.outstanding_balance
    THEN a.outstanding_balance - b.outstanding_balance
    ELSE b.annual_interest_rate - a.annual_interest_rate

\* The comparator handed to sort by the generator of the given ordering.
LoanCmp(ordering, a, b) ==
    IF ordering = "avalanche" THEN AvalancheCmp(a, b) ELSE SnowballCmp(a, b)

\* Array.prototype.sort on a copy: a stable sort.  x is inserted behind the
\* last element it does not precede (insertion sort).
RECURSIVE InsertSorted(_, _, _)
InsertSorted(sorted, x, ordering) ==
    IF sorted = <<>> THEN << x >>
    ELSE LET last == sorted[Len(sorted)]
         IN  IF LoanCmp(ordering, x, last) < 0
             THEN Append(InsertSorted(SubSeq(sorted, 1, Len(sorted) - 1), x, ordering),
                         last)
             ELSE Append(sorted, x)

RECURSIVE SortLoans(_, _)
SortLoans(loans, ordering) ==
    IF loans = <<>> THEN <<>>
    ELSE InsertSorted(SortLoans(SubSeq(loans, 1, Len(loans) - 1), ordering),
                      loans[Len(loans)], ordering)

\* .map(loan => loan.loan_name)
NamesOf(loans) == [i \in 1..Len(loans) |-> loans[i].loan_name]

sortedAvalanche(loans) == SortLoans(loans, "avalanche")
sortedSnowball(loans) == SortLoans(loans, "snowball")

\* The names of q, each listed once (its first occurrence).
RECURSIVE DistinctNames(_)
DistinctNames(q) ==
    IF q = <<>> THEN <<>>
    ELSE LET front == DistinctNames(SubSeq(q, 1, Len(q) - 1))
         IN  IF \E i \in 1..Len(front) : front[i] = q[Len(q)]
             THEN front ELSE Append(front, q[Len(q)])

\* generateAvalancheOrder listing a repeated name once.
generateAvalancheOrder_Distinct(loans) == DistinctNames(NamesOf(sortedAvalanche(loans)))

generateAvalancheOrder(loans) == NamesOf(sortedAvalanche(loans))
generateSnowballOrder(loans) == NamesOf(sortedSnowball(loans))

\* while (remainingBalance > 0.01 && months < maxMonths) of calculateLoanInterest,
\* on the working state st = [remainingBalance, totalInterest, months, broke];
\* broke records the break of line 331.
LoanInterestLoopRuns(st) ==
    /\ ~st.broke
    /\ st.remainingBalance > Cent
    /\ st.months < maxMonths

\* One iteration of that loop (lines 326-336).
LoanInterestMonth(st, monthlyRate, monthlyEMI) ==
    LET interestComponent == Mul(st.remainingBalance, monthlyRate)
        principalComponent == monthlyEMI - interestComponent
    IN  IF principalComponent <= 0
        THEN [st EXCEPT !.broke = TRUE]
        ELSE [remainingBalance |-> st.remainingBalance - principalComponent,
              totalInterest |-> st.totalInterest + interestComponent,
              months |-> st.months + 1,
              broke |-> FALSE]

\* The loop from st, for at most n more iterations.  The iterations are split
\* in halves to keep the evaluation shallow, and the state after the first
\* half is bound as a value (half), so that it is computed once.
RECURSIVE LoanInterestLoop(_, _, _, _)
LoanInterestLoop(n, st, monthlyRate, monthlyEMI) ==
    IF n = 0 \/ ~LoanInterestLoopRuns(st) THEN st
    ELSE IF n = 1 THEN LoanInterestMonth(st, monthlyRate, monthlyEMI)
    ELSE CHOOSE end \in
             { LoanInterestLoop(n - (n \div 2), half, monthlyRate, monthlyEMI) :
                 half \in { LoanInterestLoop(n \div 2, st, monthlyRate, monthlyEMI) } } :
             TRUE

\* The working state of calculateLoanInterest when its loop has ended.
LoanInterestEnd(outstandingBalance, annualInterestRate, monthlyEMI) ==
    LoanInterestLoop(maxMonths,
                     [remainingBalance |-> outstandingBalance, totalInterest |-> 0,
                      months |-> 0, broke |-> FALSE],
                     MonthlyRate(annualInterestRate), monthlyEMI)

calculateLoanInterest(outstandingBalance, annualInterestRate, monthlyEMI) ==
    Round2(LoanInterestEnd(outstandingBalance, annualInterestRate, monthlyEMI).totalInterest)

\* loans.reduce((total, loan) => total + calculateLoanInterest(...), 0)
RECURSIVE calculateBaselineInterest(_)
calculateBaselineInterest(loans) ==
    IF loans = <<>> THEN 0
    ELSE calculateBaselineInterest(SubSeq(loans, 1, Len(loans) - 1))
         + calculateLoanInterest(loans[Len(loans)].outstanding_balance,
                                 loans[Len(loans)].annual_interest_rate,
                                 loans[Len(loans)].monthly_emi)

\* interestDifference > Math.min(avalancheInterest, snowballInterest) * 0.05
\* The totals are whole cents, which a double holds only approximately, so
\* when the difference is exactly 5% of the smaller total the comparison
\* follows the rounding of its operands: 38.64 - 36.8 > 36.8 * 0.05 is true,
\* 5.25 - 5 > 5 * 0.05 is false.  tieIsGreater is that outcome.
SignificantDifference(avalancheInterest, snowballInterest, tieIsGreater) ==
    LET interestDifference == Abs(avalancheInterest - snowballInterest)
        threshold == Mul(Min(avalancheInterest, snowballInterest), U(5) \div 100)
    IN  \/ interestDifference > threshold
        \/ interestDifference = threshold /\ threshold > 0 /\ tieIsGreater

\* RecommendedStrategy without the "snowball significantly cheaper" branch.
RecommendedStrategy_NoSnowballBranch(avalancheInterest, snowballInterest, risk, tieIsGreater) ==
    IF /\ avalancheInterest < snowballInterest
       /\ SignificantDifference(avalancheInterest, snowballInterest, tieIsGreater)
    THEN "avalanche"
    ELSE IF risk = "low" THEN "snowball"
    ELSE IF risk = "high" THEN "avalanche"
    ELSE IF avalancheInterest <= snowballInterest THEN "avalanche"
    ELSE "snowball"

\* RecommendedStrategy with the risk tolerance consulted before the totals:
\* low gets snowball and high gets avalanche whatever the difference.
RecommendedStrategy_RiskFirst(avalancheInterest, snowballInterest, risk, tieIsGreater) ==
    IF risk = "low" THEN "snowball"
    ELSE IF risk = "high" THEN "avalanche"
    ELSE IF avalancheInterest <= snowballInterest THEN "avalanche"
    ELSE "snowball"

\* RecommendedStrategy with a medium risk tolerance treated as a low one in a
\* near tie.
RecommendedStrategy_MediumAsLow(avalancheInterest, snowballInterest, risk, tieIsGreater) ==
    IF /\ avalancheInterest < snowballInterest
       /\ SignificantDifference(avalancheInterest, snowballInterest, tieIsGreater)
    THEN "avalanche"
    ELSE IF /\ snowballInterest < avalancheInterest
            /\ SignificantDifference(avalancheInterest, snowballInterest, tieIsGreater)
    THEN "snowball"
    ELSE IF risk = "high" THEN "avalanche"
    ELSE "snowball"

\* RecommendedStrategy with the medium branch deciding by "<" for "<=".
RecommendedStrategy_StrictMedium(avalancheInterest, snowballInterest, risk, tieIsGreater) ==
    LET significantDifference ==
            SignificantDifference(avalancheInterest, snowballInterest, tieIsGreater)
    IN  IF avalancheInterest < snowballInterest /\ significantDifference
        THEN "avalanche"
        ELSE IF snowballInterest < avalancheInterest /\ significantDifference
        THEN "snowball"
        ELSE IF risk = "low" THEN "snowball"
        ELSE IF risk = "high" THEN "avalanche"
        ELSE IF avalancheInterest < snowballInterest THEN "avalanche"
        ELSE "snowball"

\* The decision of optimizeDebtRepayment (the if / else-if / else chain).
RecommendedStrategy(avalancheInterest, snowballInterest, risk, tieIsGreater) ==
    LET significantDifference ==
            SignificantDifference(avalancheInterest, snowballInterest, tieIsGreater)
    IN  IF avalancheInterest < snowballInterest /\ significantDifference
        THEN "avalanche"
        ELSE IF snowballInterest < avalancheInterest /\ significantDifference
        THEN "snowball"
        ELSE IF risk = "low" THEN "snowball"
        ELSE IF risk = "high" THEN "avalanche"
        ELSE IF avalancheInterest <= snowballInterest THEN "avalanche"
        ELSE "snowball"

\* EstimatedInterestSaved with the two savings swapped.
EstimatedInterestSaved_Swapped(recommended, baselineInterest, avalancheInterest, snowballInterest) ==
    LET avalancheSavings == baselineInterest - avalancheInterest
        snowballSavings == baselineInterest - snowballInterest
    IN  Round2(IF recommended = "avalanche" THEN snowballSavings ELSE avalancheSavings)

\* estimatedInterestSaved, rounded to cents as returned.
EstimatedInterestSaved(recommended, baselineInterest, avalancheInterest, snowballInterest) ==
    LET avalancheSavings == baselineInterest - avalancheInterest
        snowballSavings == baselineInterest - snowballInterest
    IN  Round2(IF recommended = "avalanche" THEN avalancheSavings ELSE snowballSavings)

-----------------------------------------------------------------------------
(***************************************************************************)
(* State                                                                   *)
(***************************************************************************)

VARIABLES
    input,             \* the DebtRepaymentInput of the call
    pc,                \* where optimizeDebtRepayment stands
    avalancheOrder,    \* const avalancheOrder
    snowballOrder,     \* const snowballOrder
    balances,          \* calculateStrategyInterest: Map name -> remaining balance
    paidOffLoans,      \* calculateStrategyInterest: Set of paid-off names
    totalInterest,     \* calculateStrategyInterest: let totalInterest
    months,            \* calculateStrategyInterest: let months
    avalancheInterest, \* const avalancheInterest
    snowballInterest,  \* const snowballInterest
    result,            \* the DebtRepaymentResult returned, NoResult before
    loanInput,         \* the LoanPrepaymentInput of the call
    lpc,               \* where calculateLoanPrepaymentImpact stands
    remainingPrincipal,\* let remainingPrincipal
    totalInterestPaid, \* let totalInterestPaid
    monthsElapsed,     \* let monthsElapsed
    loanResult         \* the LoanPrepaymentResult returned, NoLoanResult before

debtVars == << input, pc, avalancheOrder, snowballOrder, balances, paidOffLoans,
               totalInterest, months, avalancheInterest, snowballInterest, result >>

prepayVars == << loanInput, lpc, remainingPrincipal, totalInterestPaid, monthsElapsed,
                 loanResult >>

vars == << debtVars, prepayVars >>

EmptyMap == [n \in {} |-> 0]

NoResult ==
    [avalanche_order |-> <<>>, snowball_order |-> <<>>, recommended_strategy |-> "",
     estimated_interest_saved |-> 0]

-----------------------------------------------------------------------------
(***************************************************************************)
(* calculateStrategyInterest, one month of its while loop at a time        *)
(***************************************************************************)

LoanNames(loans) == { loans[i].loan_name : i \in 1..Len(loans) }

\* new Map(loans.map(loan => [loan.loan_name, loan.outstanding_balance])):
\* a later entry of the same name replaces an earlier one.
InitialBalances(loans) ==
    [n \in LoanNames(loans) |->
        LET last == CHOOSE i \in 1..Len(loans) :
                        /\ loans[i].loan_name = n
                        /\ \A j \in (i + 1)..Len(loans) : loans[j].loan_name # n
        IN  loans[last].outstanding_balance]

\* The order the running call of calculateStrategyInterest was given.
RepaymentOrder == IF pc = "avalanche" THEN avalancheOrder ELSE snowballOrder

\* repaymentOrder.find(name => !paidOffLoans.has(name)) finds a name.
HasPriorityLoan(repaymentOrder, paidOff) ==
    \E i \in 1..Len(repaymentOrder) : repaymentOrder[i] \notin paidOff

CurrentPriorityLoanName(repaymentOrder, paidOff) ==
    LET first == CHOOSE i \in 1..Len(repaymentOrder) :
                     /\ repaymentOrder[i] \notin paidOff
                     /\ \A j \in 1..(i - 1) : repaymentOrder[j] \in paidOff
    IN  repaymentOrder[first]

\* AvailableExtra without the EMIs of the paid-off loans.
AvailableExtra_SurplusOnly(loans, paidOff, monthlySurplus) == monthlySurplus

\* let availableExtra = monthlySurplus; plus the EMI of every paid-off loan.
RECURSIVE AvailableExtra(_, _, _)
AvailableExtra(loans, paidOff, monthlySurplus) ==
    IF loans = <<>> THEN monthlySurplus
    ELSE AvailableExtra(SubSeq(loans, 1, Len(loans) - 1), paidOff, monthlySurplus)
         + (IF loans[Len(loans)].loan_name \in paidOff
            THEN loans[Len(loans)].monthly_emi ELSE 0)

\* LoanMonth marking a loan paid off once its balance is at most 1, not 0.01.
LoanMonth_PaidOffBelowOne(loan, priority, st) ==
    LET name == loan.loan_name
        balance == st.balances[name]
        monthlyRate == MonthlyRate(loan.annual_interest_rate)
        interestComponent == Mul(balance, monthlyRate)
        principalFromEMI == Min(loan.monthly_emi - interestComponent, balance)
        afterEMI == balance - principalFromEMI
        extraPayment ==
            IF name = priority /\ st.availableExtra > 0 /\ afterEMI > Cent
            THEN Min(st.availableExtra, afterEMI)
            ELSE 0
        newBalance == afterEMI - extraPayment
    IN  IF name \in st.paidOffLoans THEN st
        ELSE IF balance <= Cent
        THEN [st EXCEPT !.paidOffLoans = @ \cup { name }]
        ELSE [balances |-> [st.balances EXCEPT ![name] = Max(0, newBalance)],
              paidOffLoans |-> IF newBalance <= U(1)
                               THEN st.paidOffLoans \cup { name }
                               ELSE st.paidOffLoans,
              totalInterest |-> st.totalInterest + interestComponent,
              availableExtra |-> st.availableExtra - extraPayment]

\* LoanMonth with the extra payment going to whichever loan the loop reaches
\* while some is left, not to the priority loan alone.
LoanMonth_ExtraToAnyLoan(loan, priority, st) ==
    LET name == loan.loan_name
        balance == st.balances[name]
        monthlyRate == MonthlyRate(loan.annual_interest_rate)
        interestComponent == Mul(balance, monthlyRate)
        principalFromEMI == Min(loan.monthly_emi - interestComponent, balance)
        afterEMI == balance - principalFromEMI
        extraPayment ==
            IF st.availableExtra > 0 /\ afterEMI > Cent
            THEN Min(st.availableExtra, afterEMI)
            ELSE 0
        newBalance == afterEMI - extraPayment
    IN  IF name \in st.paidOffLoans THEN st
        ELSE IF balance <= Cent
        THEN [st EXCEPT !.paidOffLoans = @ \cup { name }]
        ELSE [balances |-> [st.balances EXCEPT ![name] = Max(0, newBalance)],
              paidOffLoans |-> IF newBalance <= Cent
                               THEN st.paidOffLoans \cup { name }
                               ELSE st.paidOffLoans,
              totalInterest |-> st.totalInterest + interestComponent,
              availableExtra |-> st.availableExtra - extraPayment]

\* The body of "for (const loan of loans)" for one loan, on the working
\* state st = [balances, paidOffLoans, totalInterest, availableExtra].
LoanMonth(loan, priority, st) ==
    LET name == loan.loan_name
        balance == st.balances[name]
        monthlyRate == MonthlyRate(loan.annual_interest_rate)
        interestComponent == Mul(balance, monthlyRate)
        principalFromEMI == Min(loan.monthly_emi - interestComponent, balance)
        afterEMI == balance - principalFromEMI
        extraPayment ==
            IF name = priority /\ st.availableExtra > 0 /\ afterEMI > Cent
            THEN Min(st.availableExtra, afterEMI)
            ELSE 0
        newBalance == afterEMI - extraPayment
    IN  IF name \in st.paidOffLoans THEN st
        ELSE IF balance <= Cent
        THEN [st EXCEPT !.paidOffLoans = @ \cup { name }]
        ELSE [balances |-> [st.balances EXCEPT ![name] = Max(0, newBalance)],
              paidOffLoans |-> IF newBalance <= Cent
                               THEN st.paidOffLoans \cup { name }
                               ELSE st.paidOffLoans,
              totalInterest |-> st.totalInterest + interestComponent,
              availableExtra |-> st.availableExtra - extraPayment]

\* The for loop over loans[i..], in list order.  The working state after
\* loans[i] is bound as a value (next), so that it is computed once.
RECURSIVE LoansMonth(_, _, _, _)
LoansMonth(loans, i, priority, st) ==
    IF i > Len(loans) THEN st
    ELSE CHOOSE end \in
             { LoansMonth(loans, i + 1, priority, next) :
                 next \in { LoanMonth(loans[i], priority, st) } } :
             TRUE

\* StrategyLoopRuns without the cap on months.
StrategyLoopRuns_NoCap ==
    /\ Cardinality(paidOffLoans) < Len(input.loans)
    /\ HasPriorityLoan(RepaymentOrder, paidOffLoans)

\* while (paidOffLoans.size < loans.length && months < maxMonths), and the
\* break when no unpaid name is left in the order.
StrategyLoopRuns ==
    /\ Cardinality(paidOffLoans) < Len(input.loans)
    /\ months < maxMonths
    /\ HasPriorityLoan(RepaymentOrder, paidOffLoans)

\* The working state of calculateStrategyInterest before its loop (lines
\* 352-364): st = [balances, paidOffLoans, totalInterest, months].
StrategyStart(loans) ==
    [balances |-> InitialBalances(loans), paidOffLoans |-> {}, totalInterest |-> 0,
     months |-> 0]

\* The loop condition and the break of lines 366-374 on a working state.
StrategyRuns(loans, repaymentOrder, st) ==
    /\ Cardinality(st.paidOffLoans) < Len(loans)
    /\ st.months < maxMonths
    /\ HasPriorityLoan(repaymentOrder, st.paidOffLoans)

\* One iteration of the while loop (lines 367-423) on a working state.
StrategyIteration(loans, repaymentOrder, monthlySurplus, st) ==
    LET priority == CurrentPriorityLoanName(repaymentOrder, st.paidOffLoans)
        end == LoansMonth(loans, 1, priority,
                   [balances |-> st.balances, paidOffLoans |-> st.paidOffLoans,
                    totalInterest |-> st.totalInterest,
                    availableExtra |-> AvailableExtra(loans, st.paidOffLoans,
                                                       monthlySurplus)])
    IN  [balances |-> end.balances, paidOffLoans |-> end.paidOffLoans,
         totalInterest |-> end.totalInterest, months |-> st.months + 1]

\* The loop from st, for at most n more iterations (split in halves, the
\* state after the first half bound as a value, as in LoanInterestLoop).
RECURSIVE StrategyLoop(_, _, _, _, _)
StrategyLoop(n, loans, repaymentOrder, monthlySurplus, st) ==
    IF n = 0 \/ ~StrategyRuns(loans, repaymentOrder, st) THEN st
    ELSE IF n = 1 THEN StrategyIteration(loans, repaymentOrder, monthlySurplus, st)
    ELSE CHOOSE end \in
             { StrategyLoop(n - (n \div 2), loans, repaymentOrder, monthlySurplus, half) :
                 half \in { StrategyLoop(n \div 2, loans, repaymentOrder,
                                         monthlySurplus, st) } } :
             TRUE

\* The value one call of calculateStrategyInterest returns.
calculateStrategyInterest(loans, repaymentOrder, monthlySurplus) ==
    Round2(StrategyLoop(maxMonths, loans, repaymentOrder, monthlySurplus,
                        StrategyStart(loans)).totalInterest)

-----------------------------------------------------------------------------
(***************************************************************************)
(* optimizeDebtRepayment                                                   *)
(***************************************************************************)

DebtState(in, at) ==
    /\ input = in
    /\ pc = at
    /\ avalancheOrder = <<>>
    /\ snowballOrder = <<>>
    /\ balances = EmptyMap
    /\ paidOffLoans = {}
    /\ totalInterest = 0
    /\ months = 0
    /\ avalancheInterest = 0
    /\ snowballInterest = 0
    /\ result = NoResult

\* A call of optimizeDebtRepayment is about to start.
InitDebt == \E in \in DebtInputs : DebtState(in, "start")

\* No call of optimizeDebtRepayment is made.
IdleDebt ==
    DebtState([hasLoans |-> FALSE, loans |-> <<>>, monthly_surplus |-> 0,
               risk_tolerance |-> "omitted"], "idle")

\* Lines 480-492: the two throws, before anything else is computed.
Validate ==
    /\ pc = "start"
    /\ pc' = IF InvalidDebtInput(input) THEN "error" ELSE "orders"
    /\ UNCHANGED << input, avalancheOrder, snowballOrder, balances, paidOffLoans,
                    totalInterest, months, avalancheInterest, snowballInterest, result, prepayVars >>

\* Lines 495-499: both orders, then the first call of calculateStrategyInterest
\* sets up its maps (lines 352-364).
GenerateOrders ==
    /\ pc = "orders"
    /\ avalancheOrder' = generateAvalancheOrder(input.loans)
    /\ snowballOrder' = generateSnowballOrder(input.loans)
    /\ balances' = InitialBalances(input.loans)
    /\ paidOffLoans' = {}
    /\ totalInterest' = 0
    /\ months' = 0
    /\ pc' = "avalanche"
    /\ UNCHANGED << input, avalancheInterest, snowballInterest, result, prepayVars >>

\* One iteration of the while loop of calculateStrategyInterest.
StrategyMonth ==
    /\ pc \in { "avalanche", "snowball" }
    /\ StrategyLoopRuns
    /\ LET priority == CurrentPriorityLoanName(RepaymentOrder, paidOffLoans)
           st == LoansMonth(input.loans, 1, priority,
                    [balances |-> balances, paidOffLoans |-> paidOffLoans,
                     totalInterest |-> totalInterest,
                     availableExtra |-> AvailableExtra(input.loans, paidOffLoans,
                                                        input.monthly_surplus)])
       IN  /\ balances' = st.balances
           /\ paidOffLoans' = st.paidOffLoans
           /\ totalInterest' = st.totalInterest
    /\ months' = months + 1
    /\ UNCHANGED << input, pc, avalancheOrder, snowballOrder, avalancheInterest,
                    snowballInterest, result, prepayVars >>

\* AvalancheReturn with the balances and the paid-off set of the avalanche
\* call handed on to the snowball call.
AvalancheReturn_SharedBalances ==
    /\ pc = "avalanche"
    /\ ~StrategyLoopRuns
    /\ avalancheInterest' = Round2(totalInterest)
    /\ totalInterest' = 0
    /\ months' = 0
    /\ pc' = "snowball"
    /\ UNCHANGED << input, avalancheOrder, snowballOrder, balances, paidOffLoans,
                    snowballInterest, result, prepayVars >>

\* The loop of the avalanche call has ended: line 426 returns, line 505 starts
\* the snowball call.
AvalancheReturn ==
    /\ pc = "avalanche"
    /\ ~StrategyLoopRuns
    /\ avalancheInterest' = Round2(totalInterest)
    /\ balances' = InitialBalances(input.loans)
    /\ paidOffLoans' = {}
    /\ totalInterest' = 0
    /\ months' = 0
    /\ pc' = "snowball"
    /\ UNCHANGED << input, avalancheOrder, snowballOrder, snowballInterest, result, prepayVars >>

\* The loop of the snowball call has ended: line 426 returns.
SnowballReturn ==
    /\ pc = "snowball"
    /\ ~StrategyLoopRuns
    /\ snowballInterest' = Round2(totalInterest)
    /\ pc' = "decide"
    /\ UNCHANGED << input, avalancheOrder, snowballOrder, balances, paidOffLoans,
                    totalInterest, months, avalancheInterest, result, prepayVars >>

\* Lines 511-573: baseline, decision, estimated saving, the returned record.
Recommend ==
    /\ pc = "decide"
    /\ \E tieIsGreater \in BOOLEAN :
       LET baselineInterest == calculateBaselineInterest(input.loans)
           recommendedStrategy ==
               RecommendedStrategy(avalancheInterest, snowballInterest, RiskOf(input),
                                   tieIsGreater)
       IN  result' =
               [avalanche_order |-> avalancheOrder,
                snowball_order |-> snowballOrder,
                recommended_strategy |-> recommendedStrategy,
                estimated_interest_saved |->
                    EstimatedInterestSaved(recommendedStrategy, baselineInterest,
                                           avalancheInterest, snowballInterest)]
    /\ pc' = "done"
    /\ UNCHANGED << input, avalancheOrder, snowballOrder, balances, paidOffLoans,
                    totalInterest, months, avalancheInterest, snowballInterest,
                    prepayVars >>


-----------------------------------------------------------------------------
(***************************************************************************)
(* calculateLoanPrepaymentImpact                                           *)
(***************************************************************************)

\* Longest loanTenureMonths of an input.
MaxTenure == 3

Principals == { U(-100), U(0), U(2), U(100), U(1200) }
AnnualRates == { U(-12), U(0), U(12), U(120) }
Tenures == (-1)..MaxTenure
PrepaymentAmounts == { U(-10), U(0), U(10), U(50), U(5000) }
PrepaymentMonths == 0..(MaxTenure + 1)
\* The two fields the function never reads.
MonthlyEMIs == { U(0), U(40) }
OutstandingPrincipals == { U(-5), U(90) }

LoanInputs ==
    [loanPrincipal : Principals, annualInterestRate : AnnualRates,
     loanTenureMonths : Tenures, monthlyEMI : MonthlyEMIs,
     outstandingPrincipal : OutstandingPrincipals,
     prepaymentAmount : PrepaymentAmounts, prepaymentMonth : PrepaymentMonths]

\* Math.pow(base, n) for an integer n >= 0, by repeated multiplication.
RECURSIVE Pow(_, _)
Pow(base, n) == IF n = 0 THEN U(1) ELSE Mul(Pow(base, n - 1), base)

\* calculatePMT without interest: the principal in equal parts at any rate.
calculatePMT_PrincipalOnly(principal, monthlyRate, tenureMonths) ==
    RoundDiv(principal, tenureMonths)

\* calculatePMT returning the whole principal at a zero rate.
calculatePMT_ZeroRatePrincipal(principal, monthlyRate, tenureMonths) ==
    IF monthlyRate = 0 THEN principal
    ELSE Div(Mul(Mul(principal, monthlyRate), Pow(U(1) + monthlyRate, tenureMonths)),
             Pow(U(1) + monthlyRate, tenureMonths) - U(1))

calculatePMT(principal, monthlyRate, tenureMonths) ==
    IF monthlyRate = 0 THEN RoundDiv(principal, tenureMonths)
    ELSE Div(Mul(Mul(principal, monthlyRate), Pow(U(1) + monthlyRate, tenureMonths)),
             Pow(U(1) + monthlyRate, tenureMonths) - U(1))

\* InvalidLoanInput with "prepaymentMonth < 0" for "prepaymentMonth <= 0".
InvalidLoanInput_MonthZero(in) ==
    \/ in.loanPrincipal <= 0
    \/ in.annualInterestRate < 0
    \/ in.loanTenureMonths <= 0
    \/ in.prepaymentAmount <= 0
    \/ in.prepaymentMonth < 0
    \/ in.prepaymentMonth > in.loanTenureMonths

\* The validation of lines 188-197: the input is rejected.
InvalidLoanInput(in) ==
    \/ in.loanPrincipal <= 0
    \/ in.annualInterestRate < 0
    \/ in.loanTenureMonths <= 0
    \/ in.prepaymentAmount <= 0
    \/ in.prepaymentMonth <= 0
    \/ in.prepaymentMonth > in.loanTenureMonths

\* CalculatedEMI taking the caller's monthlyEMI when it is positive.
CalculatedEMI_UsesInput(in) ==
    IF in.monthlyEMI > 0 THEN in.monthlyEMI
    ELSE calculatePMT(in.loanPrincipal, MonthlyRate(in.annualInterestRate),
                      in.loanTenureMonths)

\* const calculatedEMI
CalculatedEMI(in) ==
    calculatePMT(in.loanPrincipal, MonthlyRate(in.annualInterestRate),
                 in.loanTenureMonths)

\* const interestBeforePrepayment = calculatedEMI * loanTenureMonths - loanPrincipal
InterestBeforePrepayment(in) ==
    CalculatedEMI(in) * in.loanTenureMonths - in.loanPrincipal

\* const SAFE_MAX_MONTHS = loanTenureMonths * 2
SafeMaxMonths(in) == in.loanTenureMonths * 2

NoLoanResult ==
    [interest_before_prepayment |-> 0, interest_after_prepayment |-> 0,
     interest_saved |-> 0, original_tenure_months |-> 0, new_tenure_months |-> 0,
     tenure_reduction_months |-> 0]

\* LoanPrepaymentResult with the reduction counted from the new tenure.
LoanPrepaymentResult_ReductionFromNew(in, interestAfterPrepayment, newTenureMonths) ==
    LET interestSaved == Max(0, InterestBeforePrepayment(in) - interestAfterPrepayment)
    IN  [interest_before_prepayment |-> MathRound(InterestBeforePrepayment(in)),
         interest_after_prepayment |-> MathRound(interestAfterPrepayment),
         interest_saved |-> MathRound(interestSaved),
         original_tenure_months |-> in.loanTenureMonths,
         new_tenure_months |-> newTenureMonths,
         tenure_reduction_months |-> Max(0, newTenureMonths - in.loanTenureMonths)]

\* Lines 250-265: the record returned once the loop has ended.
LoanPrepaymentResult(in, interestAfterPrepayment, newTenureMonths) ==
    LET interestSaved == Max(0, InterestBeforePrepayment(in) - interestAfterPrepayment)
    IN  [interest_before_prepayment |-> MathRound(InterestBeforePrepayment(in)),
         interest_after_prepayment |-> MathRound(interestAfterPrepayment),
         interest_saved |-> MathRound(interestSaved),
         original_tenure_months |-> in.loanTenureMonths,
         new_tenure_months |-> newTenureMonths,
         tenure_reduction_months |-> Max(0, in.loanTenureMonths - newTenureMonths)]

LoanState(in, at) ==
    /\ loanInput = in
    /\ lpc = at
    /\ remainingPrincipal = 0
    /\ totalInterestPaid = 0
    /\ monthsElapsed = 0
    /\ loanResult = NoLoanResult

\* A call of calculateLoanPrepaymentImpact is about to start.
InitPrepay == \E in \in LoanInputs : LoanState(in, "start")

\* No call of calculateLoanPrepaymentImpact is made.
IdlePrepay ==
    LoanState([loanPrincipal |-> 0, annualInterestRate |-> 0, loanTenureMonths |-> 0,
               monthlyEMI |-> 0, outstandingPrincipal |-> 0, prepaymentAmount |-> 0,
               prepaymentMonth |-> 0], "idle")

\* Lines 188-212: the throw, or the set-up of the simulation.
ValidateLoan ==
    /\ lpc = "start"
    /\ IF InvalidLoanInput(loanInput)
       THEN /\ lpc' = "error"
            /\ UNCHANGED remainingPrincipal
       ELSE /\ lpc' = "loop"
            /\ remainingPrincipal' = loanInput.loanPrincipal
    /\ UNCHANGED << loanInput, totalInterestPaid, monthsElapsed, loanResult, debtVars >>

\* while (remainingPrincipal > 1 && monthsElapsed < SAFE_MAX_MONTHS)
PrepayLoopRuns ==
    /\ remainingPrincipal > U(1)
    /\ monthsElapsed < SafeMaxMonths(loanInput)

\* PrepaymentThisMonth with the test of line 229 never true: no month gets the
\* prepayment.
PrepaymentThisMonth_Never(in, month) == 0

\* PrepaymentThisMonth with the month counted back from the end of the tenure.
PrepaymentThisMonth_CountedFromEnd(in, month) ==
    IF month = in.loanTenureMonths + 1 - in.prepaymentMonth
    THEN in.prepaymentAmount ELSE 0

\* let prepaymentThisMonth, after the test of line 229, in iteration month
\* (the value of monthsElapsed once incremented).
PrepaymentThisMonth(in, month) ==
    IF month = in.prepaymentMonth THEN in.prepaymentAmount ELSE 0

\* PrincipalAfterMonth without the branch of line 235: the month's principal
\* part and prepayment are subtracted whatever is left.
PrincipalAfterMonth_NoCap(remaining, principalForMonth, prepaymentThisMonth) ==
    remaining - (principalForMonth + prepaymentThisMonth)

\* PrincipalAfterMonth with the prepayment added to the balance.
PrincipalAfterMonth_AddsPrepayment(remaining, principalForMonth, prepaymentThisMonth) ==
    IF remaining < principalForMonth - prepaymentThisMonth
    THEN 0
    ELSE remaining - (principalForMonth - prepaymentThisMonth)

\* The balance after one iteration (lines 225-247).
PrincipalAfterMonth(remaining, principalForMonth, prepaymentThisMonth) ==
    IF remaining < principalForMonth + prepaymentThisMonth
    THEN 0
    ELSE remaining - (principalForMonth + prepaymentThisMonth)

\* One iteration of the while loop (lines 218-247).
PrepayMonth ==
    /\ lpc = "loop"
    /\ PrepayLoopRuns
    /\ LET interestForMonth ==
               Mul(remainingPrincipal, MonthlyRate(loanInput.annualInterestRate))
           principalForMonth == CalculatedEMI(loanInput) - interestForMonth
           prepaymentThisMonth == PrepaymentThisMonth(loanInput, monthsElapsed + 1)
       IN  /\ monthsElapsed' = monthsElapsed + 1
           /\ totalInterestPaid' = totalInterestPaid + interestForMonth
           /\ remainingPrincipal' =
                  PrincipalAfterMonth(remainingPrincipal, principalForMonth,
                                      prepaymentThisMonth)
    /\ UNCHANGED << loanInput, lpc, loanResult, debtVars >>

\* The loop has ended: lines 250-265.
PrepayReturn ==
    /\ lpc = "loop"
    /\ ~PrepayLoopRuns
    /\ loanResult' = LoanPrepaymentResult(loanInput, totalInterestPaid, monthsElapsed)
    /\ lpc' = "done"
    /\ UNCHANGED << loanInput, remainingPrincipal, totalInterestPaid, monthsElapsed,
                    debtVars >>

\* The while loop of lines 217-248 run to its end from the given values of
\* remainingPrincipal, totalInterestPaid and monthsElapsed.
RECURSIVE PrepayLoop(_, _, _, _)
PrepayLoop(in, remaining, interestPaid, elapsed) ==
    IF remaining > U(1) /\ elapsed < SafeMaxMonths(in)
    THEN LET interestForMonth == Mul(remaining, MonthlyRate(in.annualInterestRate))
             principalForMonth == CalculatedEMI(in) - interestForMonth
             prepaymentThisMonth == PrepaymentThisMonth(in, elapsed + 1)
         IN  PrepayLoop(in,
                        PrincipalAfterMonth(remaining, principalForMonth,
                                            prepaymentThisMonth),
                        interestPaid + interestForMonth, elapsed + 1)
    ELSE [totalInterestPaid |-> interestPaid, monthsElapsed |-> elapsed]

\* The value calculateLoanPrepaymentImpact returns for an input that passes
\* its validation.
calculateLoanPrepaymentImpact(in) ==
    LET end == PrepayLoop(in, in.loanPrincipal, 0, 0)
    IN  LoanPrepaymentResult(in, end.totalInterestPaid, end.monthsElapsed)

-----------------------------------------------------------------------------
(***************************************************************************)
(* One call of either function                                             *)
(***************************************************************************)

Init ==
    \/ InitDebt /\ IdlePrepay
    \/ IdleDebt /\ InitPrepay

Next ==
    \/ Validate
    \/ GenerateOrders
    \/ StrategyMonth
    \/ AvalancheReturn
    \/ SnowballReturn
    \/ Recommend
    \/ ValidateLoan
    \/ PrepayMonth
    \/ PrepayReturn

Spec == Init /\ [][Next]_vars

\* The loans of the calls that LiveSpec follows to their end: one that is
\* repaid in a few months, one that validation rejects, and those that are
\* never repaid on their EMI (Z and the slow loans).
LiveLoans ==
    { Loan("A", 50, 60, 20), Loan("B", 50, 60, 0), Loan("Z", 100, 120, 10) }
        \cup SlowLoans

\* A call of either function on an input of Init; of the inputs that differ
\* only in a field no loop reads (risk_tolerance, monthlyEMI,
\* outstandingPrincipal) one is kept, and the loans are those of LiveLoans.
LiveInit ==
    \/ /\ \E in \in DebtInputs :
             /\ in.risk_tolerance = "omitted"
             /\ \A i \in 1..Len(in.loans) : in.loans[i] \in LiveLoans
             /\ DebtState(in, "start")
       /\ IdlePrepay
    \/ /\ IdleDebt
       /\ \E in \in LoanInputs :
             /\ in.monthlyEMI = 0
             /\ in.outstandingPrincipal = U(90)
             /\ LoanState(in, "start")

\* The program keeps running: a call that can take its next step takes it.
LiveSpec == LiveInit /\ [][Next]_vars /\ WF_vars(Next)

-----------------------------------------------------------------------------
(***************************************************************************)
(* Properties                                                              *)
(***************************************************************************)

\* optimizeDebtRepayment has returned / is past its validation.
Returned == pc = "done"
PastValidation == pc \in { "orders", "avalanche", "snowball", "decide", "done" }

\* |avalancheInterest - snowballInterest| > 0.05 * min(...), on totals that
\* are whole cents (a twentieth of a whole cent is exact).
Significant ==
    Abs(avalancheInterest - snowballInterest)
        > Min(avalancheInterest, snowballInterest) \div 20

\* C1: for every valid input the returned estimated_interest_saved is >= 0,
\* also when a loan's monthly_emi does not exceed its first month's interest.
C1_InterestSavedNonNegative ==
    Returned => result.estimated_interest_saved >= 0

\* C2: calculateLoanPrepaymentImpact throws, with no simulation step run and
\* no result, exactly when one of the six range conditions holds; every other
\* input enters the simulation, which is bounded, and ends in a result, never
\* in the throw.
C2_PrepayValidationExact ==
    LET in == loanInput
        rejected ==
            \/ in.loanPrincipal <= 0
            \/ in.annualInterestRate < 0
            \/ in.loanTenureMonths <= 0
            \/ in.prepaymentAmount <= 0
            \/ in.prepaymentMonth <= 0
            \/ in.prepaymentMonth > in.loanTenureMonths
    IN  /\ lpc = "error" =>
            /\ rejected
            /\ monthsElapsed = 0
            /\ totalInterestPaid = 0
            /\ loanResult = NoLoanResult
        /\ lpc \in { "loop", "done" } => ~rejected
        /\ lpc \in { "loop", "done" } => monthsElapsed <= 2 * in.loanTenureMonths
        /\ lpc = "done" => loanResult # NoLoanResult

C2_RejectsPrepaymentMonthZero ==
    /\ lpc = "error"
    /\ loanInput.prepaymentMonth = 0
    /\ loanInput.loanPrincipal > 0
    /\ loanInput.annualInterestRate >= 0
    /\ loanInput.loanTenureMonths > 0
    /\ loanInput.prepaymentAmount > 0

\* C3: optimizeDebtRepayment throws, with no ordering generated and no month
\* simulated, exactly when loans is missing or empty or some loan has an empty
\* name, a balance <= 0, a rate < 0 or an EMI <= 0; every other input enters
\* the simulations, which are bounded, and ends in a result, never in a throw.
C3_DebtValidationExact ==
    LET loans == input.loans
        rejected ==
            \/ ~input.hasLoans
            \/ loans = <<>>
            \/ \E i \in 1..Len(loans) :
                  \/ loans[i].loan_name = ""
                  \/ loans[i].outstanding_balance <= 0
                  \/ loans[i].annual_interest_rate < 0
                  \/ loans[i].monthly_emi <= 0
    IN  /\ pc = "error" =>
            /\ rejected
            /\ avalancheOrder = <<>>
            /\ snowballOrder = <<>>
            /\ balances = EmptyMap
            /\ months = 0
            /\ totalInterest = 0
            /\ result = NoResult
        /\ PastValidation => ~rejected
        /\ PastValidation => months <= maxMonths
        /\ Returned => result.recommended_strategy \in { "avalanche", "snowball" }

C3_RejectsZeroEMI ==
    /\ pc = "error"
    /\ input.hasLoans
    /\ Len(input.loans) = 2
    /\ \E i \in 1..2 : input.loans[i].monthly_emi = 0
    /\ \A i \in 1..2 :
          /\ input.loans[i].loan_name # ""
          /\ input.loans[i].outstanding_balance > 0
          /\ input.loans[i].annual_interest_rate >= 0

\* C4: when the two totals differ by more than 5% of the smaller one, the
\* strictly cheaper strategy is recommended, whatever the risk tolerance.
C4_SignificantPicksCheaper ==
    Returned /\ Significant =>
        /\ avalancheInterest # snowballInterest
        /\ result.recommended_strategy =
               IF avalancheInterest < snowballInterest THEN "avalanche" ELSE "snowball"

\* Snowball is significantly cheaper and wins against a high risk tolerance;
\* avalanche is significantly cheaper and wins against a low one.
C4_SnowballBeatsHighRisk ==
    /\ Returned
    /\ Significant
    /\ snowballInterest < avalancheInterest
    /\ input.risk_tolerance = "high"
    /\ result.recommended_strategy = "snowball"

\* C5: in a near tie (difference at most 5% of the smaller total, equality
\* included) low risk gets snowball, high risk gets avalanche, and medium or
\* omitted gets avalanche if avalancheInterest <= snowballInterest, else snowball.
C5_NearTieFollowsRisk ==
    Returned /\ ~Significant =>
        result.recommended_strategy =
            CASE input.risk_tolerance = "low" -> "snowball"
              [] input.risk_tolerance = "high" -> "avalanche"
              [] OTHER -> IF avalancheInterest <= snowballInterest
                          THEN "avalanche" ELSE "snowball"

\* The one-to-one assignments of the positions of an order to the loans.
Assignments(n) ==
    { p \in [1..n -> 1..n] : \A i, j \in 1..n : p[i] = p[j] => i = j }

\* order names the loans in the sequence p, loan by loan.
Names(order, loans, p) ==
    /\ Len(order) = Len(loans)
    /\ \A i \in 1..Len(order) : order[i] = loans[p[i]].loan_name

\* C6: avalanche_order lists the loans by rate descending and, at equal
\* rates, by balance descending: of two adjacent entries the first has the
\* strictly higher rate, or the same rate and a balance at least as large.
\* (A name may repeat, so the entries are matched to the loans one-to-one.)
C6_AvalancheOrderSorted ==
    PastValidation /\ pc # "orders" =>
        \E p \in Assignments(Len(input.loans)) :
            /\ Names(avalancheOrder, input.loans, p)
            /\ \A i \in 1..(Len(input.loans) - 1) :
                  LET a == input.loans[p[i]]
                      b == input.loans[p[i + 1]]
                  IN  \/ a.annual_interest_rate > b.annual_interest_rate
                      \/ /\ a.annual_interest_rate = b.annual_interest_rate
                         /\ a.outstanding_balance >= b.outstanding_balance

\* Equal rates, the smaller balance first in the input: the sort swaps them.
C6_EqualRateSwapped ==
    /\ Returned
    /\ input.loans = << Loan("A", 50, 60, 20), Loan("B", 100, 60, 60) >>
    /\ result.avalanche_order = << "B", "A" >>

\* C7: snowball_order lists the loans by balance ascending and, at equal
\* balances, by rate descending: of two adjacent entries the first has the
\* strictly smaller balance, or the same balance and a rate at least as large.
\* (A name may repeat, so the entries are matched to the loans one-to-one.)
C7_SnowballOrderSorted ==
    PastValidation /\ pc # "orders" =>
        \E p \in Assignments(Len(input.loans)) :
            /\ Names(snowballOrder, input.loans, p)
            /\ \A i \in 1..(Len(input.loans) - 1) :
                  LET a == input.loans[p[i]]
                      b == input.loans[p[i + 1]]
                  IN  \/ a.outstanding_balance < b.outstanding_balance
                      \/ /\ a.outstanding_balance = b.outstanding_balance
                         /\ a.annual_interest_rate >= b.annual_interest_rate

\* Equal balances, the lower rate first in the input: the sort swaps them.
C7_EqualBalanceSwapped ==
    /\ Returned
    /\ input.loans = << Loan("B", 100, 60, 60), Loan("Z", 100, 120, 10) >>
    /\ result.snowball_order = << "Z", "B" >>

\* How often x occurs in the sequence q.
Count(q, x) == Cardinality({ i \in 1..Len(q) : q[i] = x })

SameNames(order, loans) ==
    /\ Len(order) = Len(loans)
    /\ \A x \in LoanNames(loans) \cup { order[i] : i \in 1..Len(order) } :
          Count(order, x) = Count(NamesOf(loans), x)

\* C8: avalanche_order and snowball_order each hold exactly the multiset of
\* the input's loan names: same length, same multiplicity, no other name.
C8_OrdersArePermutations ==
    /\ PastValidation /\ pc # "orders" =>
          /\ SameNames(avalancheOrder, input.loans)
          /\ SameNames(snowballOrder, input.loans)
    /\ Returned =>
          /\ SameNames(result.avalanche_order, input.loans)
          /\ SameNames(result.snowball_order, input.loans)

\* Two loans of one name: the name is listed twice.
C8_RepeatedNameKept ==
    /\ Returned
    /\ input.loans = << Loan("B", 100, 60, 60), Loan("B", 100, 120, 60) >>
    /\ result.avalanche_order = << "B", "B" >>
    /\ result.snowball_order = << "B", "B" >>

\* C9: estimated_interest_saved is the baseline interest minus the simulated
\* interest of the strategy that recommended_strategy names.
C9_SavedIsOfRecommended ==
    Returned =>
        result.estimated_interest_saved =
            calculateBaselineInterest(input.loans)
              - (IF result.recommended_strategy = "avalanche"
                 THEN avalancheInterest ELSE snowballInterest)

C9_SnowballSavingReported ==
    /\ Returned
    /\ result.recommended_strategy = "snowball"
    /\ avalancheInterest # snowballInterest
    /\ result.estimated_interest_saved =
           calculateBaselineInterest(input.loans) - snowballInterest

\* C10: in every returned LoanPrepaymentResult, interest_saved =
\* max(0, interest_before_prepayment - interest_after_prepayment), all three
\* being the rounded values as returned.
C10_SavedIsDifferenceOfFields ==
    lpc = "done" =>
        loanResult.interest_saved =
            Max(0, loanResult.interest_before_prepayment
                     - loanResult.interest_after_prepayment)

\* calculateLoanPrepaymentImpact has returned.
LoanReturned == lpc = "done"

\* C11: every result of calculateLoanPrepaymentImpact, also the one for a
\* prepayment in the last scheduled month, has interest_saved >= 0,
\* tenure_reduction_months >= 0, original_tenure_months = loanTenureMonths and
\* tenure_reduction_months = max(0, original_tenure_months - new_tenure_months).
C11_ResultWellFormed ==
    LoanReturned =>
        /\ loanResult.interest_saved >= 0
        /\ loanResult.tenure_reduction_months >= 0
        /\ loanResult.original_tenure_months = loanInput.loanTenureMonths
        /\ loanResult.tenure_reduction_months =
               Max(0, loanResult.original_tenure_months - loanResult.new_tenure_months)

\* A prepayment in the last scheduled month: the loan ends on schedule and the
\* reduction is 0.
C11_PrepaidInFinalMonth ==
    /\ LoanReturned
    /\ loanInput.prepaymentMonth = loanInput.loanTenureMonths
    /\ loanInput.loanTenureMonths = MaxTenure
    /\ loanInput.annualInterestRate > 0
    /\ loanResult.tenure_reduction_months = 0
    /\ loanResult.new_tenure_months = MaxTenure

\* The valid inputs that differ from the one of the call in prepaymentAmount
\* alone, and have a larger one.
LargerPrepayments ==
    { [loanInput EXCEPT !.prepaymentAmount = amount] :
        amount \in { a \in PrepaymentAmounts : a > loanInput.prepaymentAmount } }

\* C12: of two valid inputs that differ only in prepaymentAmount, the one with
\* the larger amount has interest_saved at least as large and new_tenure_months
\* at most as large as the other.
C12_MonotoneInAmount ==
    LoanReturned =>
        /\ loanResult = calculateLoanPrepaymentImpact(loanInput)
        /\ \A larger \in LargerPrepayments :
              LET other == calculateLoanPrepaymentImpact(larger)
              IN  /\ other.interest_saved >= loanResult.interest_saved
                  /\ other.new_tenure_months <= loanResult.new_tenure_months

\* A larger prepayment that saves strictly more and ends the loan earlier.
C12_LargerSavesMore ==
    /\ LoanReturned
    /\ \E larger \in LargerPrepayments :
          LET other == calculateLoanPrepaymentImpact(larger)
          IN  /\ other.interest_saved > loanResult.interest_saved
              /\ other.new_tenure_months < loanResult.new_tenure_months
              /\ loanResult.interest_saved > 0

\* The valid inputs that differ from the one of the call in prepaymentMonth
\* alone, and have an earlier one.
EarlierPrepayments ==
    { [loanInput EXCEPT !.prepaymentMonth = month] :
        month \in 1..(loanInput.prepaymentMonth - 1) }

\* C13: of two valid inputs that differ only in prepaymentMonth, the one with
\* the earlier month has interest_saved at least as large as the other.
C13_MonotoneInMonth ==
    LoanReturned =>
        /\ loanResult = calculateLoanPrepaymentImpact(loanInput)
        /\ \A earlier \in EarlierPrepayments :
              calculateLoanPrepaymentImpact(earlier).interest_saved
                  >= loanResult.interest_saved

\* An earlier prepayment that saves strictly more than the later one, which
\* saves something too.
C13_EarlierSavesMore ==
    /\ LoanReturned
    /\ loanResult.interest_saved > 0
    /\ \E earlier \in EarlierPrepayments :
          calculateLoanPrepaymentImpact(earlier).interest_saved
              > loanResult.interest_saved

\* The input of the call passes the validation and has a zero rate.
ValidZeroRate ==
    /\ lpc # "idle"
    /\ loanInput.loanPrincipal > 0
    /\ loanInput.loanTenureMonths > 0
    /\ loanInput.prepaymentAmount > 0
    /\ loanInput.prepaymentMonth \in 1..loanInput.loanTenureMonths
    /\ loanInput.annualInterestRate = 0

\* C14: with annualInterestRate = 0 a valid input raises no error, the EMI is
\* loanPrincipal / loanTenureMonths (before the prepayment month the balance
\* falls by exactly that much a month and no interest accrues), and the
\* result has interest_before_prepayment = interest_after_prepayment =
\* interest_saved = 0.
C14_ZeroRateLinear ==
    ValidZeroRate =>
        /\ lpc # "error"
        /\ totalInterestPaid = 0
        /\ lpc = "loop" /\ monthsElapsed < loanInput.prepaymentMonth =>
              remainingPrincipal =
                  loanInput.loanPrincipal
                    - monthsElapsed
                        * RoundDiv(loanInput.loanPrincipal, loanInput.loanTenureMonths)
        /\ LoanReturned =>
              /\ loanResult.interest_before_prepayment = 0
              /\ loanResult.interest_after_prepayment = 0
              /\ loanResult.interest_saved = 0

\* A zero-rate loan of three instalments, prepaid in the last month, has
\* returned.
C14_ZeroRateReturned ==
    /\ ValidZeroRate
    /\ LoanReturned
    /\ loanInput.loanPrincipal = U(100)
    /\ loanInput.loanTenureMonths = 3
    /\ loanInput.prepaymentMonth = 3
    /\ loanResult.new_tenure_months = 3

\* C15: for a valid input of exactly one loan, avalanche_order and
\* snowball_order are both the one name, and the two simulated totals are
\* equal, whatever the monthly_surplus.
C15_SingleLoanSame ==
    PastValidation /\ Len(input.loans) = 1 =>
        /\ pc # "orders" =>
              /\ avalancheOrder = << input.loans[1].loan_name >>
              /\ snowballOrder = << input.loans[1].loan_name >>
        /\ pc \in { "decide", "done" } => avalancheInterest = snowballInterest
        /\ Returned =>
              /\ result.avalanche_order = << input.loans[1].loan_name >>
              /\ result.snowball_order = result.avalanche_order

\* One interest-bearing loan repaid with a surplus: both totals are the same
\* positive amount.
C15_SingleLoanWithSurplus ==
    /\ Returned
    /\ Len(input.loans) = 1
    /\ input.monthly_surplus > 0
    /\ avalancheInterest > 0
    /\ avalancheInterest = snowballInterest

\* Among the loans of the input the rate strictly decreases as the balance
\* strictly increases.
RatesFallAsBalancesRise ==
    \A i, j \in 1..Len(input.loans) :
        i # j =>
            /\ input.loans[i].outstanding_balance # input.loans[j].outstanding_balance
            /\ input.loans[i].outstanding_balance < input.loans[j].outstanding_balance
                  => input.loans[i].annual_interest_rate
                         > input.loans[j].annual_interest_rate

\* C16: when rates strictly decrease as balances strictly increase,
\* avalanche_order lists the loans from the highest to the lowest rate,
\* snowball_order is the same sequence, and a medium or omitted risk
\* tolerance gets avalanche recommended.
C16_AlignedOrdersPickAvalanche ==
    PastValidation /\ pc # "orders" /\ RatesFallAsBalancesRise =>
        /\ \E p \in Assignments(Len(input.loans)) :
              /\ Names(avalancheOrder, input.loans, p)
              /\ \A i \in 1..(Len(input.loans) - 1) :
                    input.loans[p[i]].annual_interest_rate
                        > input.loans[p[i + 1]].annual_interest_rate
        /\ snowballOrder = avalancheOrder
        /\ Returned =>
              /\ result.snowball_order = result.avalanche_order
              /\ input.risk_tolerance \in { "medium", "omitted" }
                    => result.recommended_strategy = "avalanche"

\* The small high-rate loan is listed second in the input and first in both
\* orders; the risk tolerance is omitted.
C16_SmallHighRateFirst ==
    /\ Returned
    /\ input.loans = << Loan("D", 500, 24, 50), Loan("A", 50, 60, 20) >>
    /\ input.risk_tolerance = "omitted"
    /\ result.avalanche_order = << "A", "D" >>
    /\ result.snowball_order = << "A", "D" >>
    /\ result.recommended_strategy = "avalanche"

\* The inputs that agree with the one of the call on loanPrincipal,
\* annualInterestRate, loanTenureMonths, prepaymentAmount and prepaymentMonth.
SameButIgnoredFields ==
    { [loanInput EXCEPT !.monthlyEMI = emi, !.outstandingPrincipal = outstanding] :
        emi \in MonthlyEMIs, outstanding \in OutstandingPrincipals }

C19_InterestNetOfPrepayment ==
    [][ /\ lpc = "loop"
        /\ monthsElapsed' = monthsElapsed + 1
        /\ monthsElapsed' = loanInput.prepaymentMonth
        => totalInterestPaid' - totalInterestPaid =
               Mul(Max(0, remainingPrincipal - loanInput.prepaymentAmount),
                   MonthlyRate(loanInput.annualInterestRate)) ]_vars

\* The loans of the input have pairwise distinct names and pairwise distinct
\* (annual_interest_rate, outstanding_balance) pairs.
PairwiseDistinct ==
    \A i, j \in 1..Len(input.loans) :
        i # j =>
            /\ input.loans[i].loan_name # input.loans[j].loan_name
            /\ << input.loans[i].annual_interest_rate,
                  input.loans[i].outstanding_balance >>
                 # << input.loans[j].annual_interest_rate,
                      input.loans[j].outstanding_balance >>

\* The loans of the input in every order.
LoanPermutations ==
    { [i \in 1..Len(input.loans) |-> input.loans[p[i]]] :
        p \in Assignments(Len(input.loans)) }

ValidLoanCall ==
    /\ lpc # "idle"
    /\ loanInput.loanPrincipal > 0
    /\ loanInput.annualInterestRate >= 0
    /\ loanInput.loanTenureMonths > 0
    /\ loanInput.prepaymentAmount > 0
    /\ loanInput.prepaymentMonth \in 1..loanInput.loanTenureMonths

MonthSimulated ==
    /\ pc \in { "avalanche", "snowball" }
    /\ months' = months + 1

\* loans[i] is the only loan of its name.
OnlyOfItsName(i) ==
    \A j \in 1..Len(input.loans) :
        input.loans[j].loan_name = input.loans[i].loan_name => j = i

\* The sum of monthly_emi over the first n loans whose name is in paidOff.
RECURSIVE PaidOffEMIs(_, _)
PaidOffEMIs(n, paidOff) ==
    IF n = 0 THEN 0
    ELSE PaidOffEMIs(n - 1, paidOff)
         + (IF input.loans[n].loan_name \in paidOff
            THEN input.loans[n].monthly_emi ELSE 0)

\* The balance of loans[i] after its own EMI: interest added, the EMI taken
\* off, and no more than the balance repaid.
AfterOwnEMI(i) ==
    LET balance == balances[input.loans[i].loan_name]
        interest == Mul(balance, MonthlyRate(input.loans[i].annual_interest_rate))
    IN  balance - Min(input.loans[i].monthly_emi - interest, balance)

\* C22: in every simulated month the priority loan is the first name of the
\* repayment order not paid off at the start of the month, and the extra
\* payment available to it is monthly_surplus plus the monthly_emi of every
\* loan already paid off at the start of the month, under both orderings:
\* the balance of that loan falls by its own EMI and by as much of that extra
\* as it still owes.
C22_PriorityGetsSurplusAndFreedEMIs ==
    [][ MonthSimulated =>
          LET first == CHOOSE k \in 1..Len(RepaymentOrder) :
                           /\ RepaymentOrder[k] \notin paidOffLoans
                           /\ \A j \in 1..(k - 1) : RepaymentOrder[j] \in paidOffLoans
              extra == input.monthly_surplus + PaidOffEMIs(Len(input.loans), paidOffLoans)
          IN  \A i \in 1..Len(input.loans) :
                  /\ input.loans[i].loan_name = RepaymentOrder[first]
                  /\ OnlyOfItsName(i)
                  /\ balances[input.loans[i].loan_name] > Cent
                  => balances'[input.loans[i].loan_name] =
                         AfterOwnEMI(i)
                           - (IF extra > 0 /\ AfterOwnEMI(i) > Cent
                              THEN Min(extra, AfterOwnEMI(i)) ELSE 0) ]_vars

\* Snowball order, no surplus: A is repaid in month 3, and in month 4 its EMI
\* of 20 goes to D on top of D's own EMI.
C22_FreedEMIRolledForward ==
    /\ pc = "snowball"
    /\ input.loans = << Loan("D", 500, 24, 50), Loan("A", 50, 60, 20) >>
    /\ input.monthly_surplus = 0
    /\ snowballOrder = << "A", "D" >>
    /\ months = 4
    /\ paidOffLoans = { "A" }
    /\ LET alone == LoanInterestLoop(3, [remainingBalance |-> U(500), totalInterest |-> 0,
                                         months |-> 0, broke |-> FALSE],
                                     MonthlyRate(U(24)), U(50)).remainingBalance
       IN  balances["D"] =
               alone - (U(50) - Mul(alone, MonthlyRate(U(24)))) - U(20)

\* The first month's interest of loans[i] is at least its monthly_emi.
EMIWithinInterest(i) ==
    input.loans[i].monthly_emi
        <= Mul(input.loans[i].outstanding_balance,
               MonthlyRate(input.loans[i].annual_interest_rate))

\* C23: the baseline is, loan by loan, the interest accrued while the loan is
\* paid with its own monthly_emi until its balance is exhausted or 600 months
\* have elapsed; a loan whose monthly_emi does not exceed its monthly interest
\* is simulated to the 600-month cap and contributes the interest of those
\* months.
C23_BaselineRunsToExhaustionOrCap ==
    pc \in { "decide", "done" } =>
        \A i \in 1..Len(input.loans) :
            LET end == LoanInterestEnd(input.loans[i].outstanding_balance,
                                       input.loans[i].annual_interest_rate,
                                       input.loans[i].monthly_emi)
            IN  /\ end.remainingBalance <= Cent \/ end.months = maxMonths
                /\ EMIWithinInterest(i) =>
                      /\ end.months = maxMonths
                      /\ calculateLoanInterest(input.loans[i].outstanding_balance,
                                               input.loans[i].annual_interest_rate,
                                               input.loans[i].monthly_emi) > 0

\* C24: the remaining principal is never negative; in a month whose scheduled
\* principal part plus prepayment exceeds the remaining balance the balance
\* becomes exactly 0, the loop does not run again, and new_tenure_months is
\* the number of that month.
C24_BalanceCappedAtZero ==
    /\ [](remainingPrincipal >= 0)
    /\ [][ lpc = "loop" /\ monthsElapsed' = monthsElapsed + 1 =>
             LET interestForMonth ==
                     Mul(remainingPrincipal, MonthlyRate(loanInput.annualInterestRate))
                 scheduled == CalculatedEMI(loanInput) - interestForMonth
                 prepayment == IF monthsElapsed' = loanInput.prepaymentMonth
                               THEN loanInput.prepaymentAmount ELSE 0
             IN  remainingPrincipal < scheduled + prepayment =>
                     /\ remainingPrincipal' = 0
                     /\ ~(remainingPrincipal' > U(1)
                            /\ monthsElapsed' < 2 * loanInput.loanTenureMonths) ]_vars
    /\ [][ lpc = "loop" /\ lpc' = "done" =>
             /\ loanResult'.new_tenure_months = monthsElapsed
             /\ monthsElapsed' = monthsElapsed ]_vars

\* A prepayment of 5000 in month 1 of a three-month loan of 1200: the balance
\* is set to 0 in that month and the loan is reported to end in month 1.
C24_OverpaidInFirstMonth ==
    /\ LoanReturned
    /\ loanInput.loanPrincipal = U(1200)
    /\ loanInput.prepaymentAmount = U(5000)
    /\ loanInput.prepaymentMonth = 1
    /\ loanInput.loanTenureMonths = 3
    /\ remainingPrincipal = 0
    /\ loanResult.new_tenure_months = 1

\* C25: in every simulated month only the priority loan chosen at the start
\* of the month can receive more than its own monthly_emi: the balance of
\* every other active loan changes by its accrued interest minus its own EMI
\* (capped at the balance), also in a month in which the priority loan is
\* cleared with extra money left over.
C25_OnlyPriorityGetsExtra ==
    [][ MonthSimulated =>
          LET priority == CurrentPriorityLoanName(RepaymentOrder, paidOffLoans)
          IN  \A i \in 1..Len(input.loans) :
                  /\ input.loans[i].loan_name # priority
                  /\ OnlyOfItsName(i)
                  /\ input.loans[i].loan_name \notin paidOffLoans
                  /\ balances[input.loans[i].loan_name] > Cent
                  => balances'[input.loans[i].loan_name] = AfterOwnEMI(i) ]_vars

\* Avalanche order, surplus 10: A is cleared in month 2 with 3.625 still owed
\* after its EMI, so 6.375 of the surplus is left over; D, next in the list,
\* has been paid its own EMI only in both months.
C25_LeftoverNotPassedOn ==
    /\ pc = "avalanche"
    /\ input.loans = << Loan("A", 50, 60, 20), Loan("D", 500, 24, 50) >>
    /\ input.monthly_surplus = U(10)
    /\ avalancheOrder = << "A", "D" >>
    /\ months = 2
    /\ paidOffLoans = { "A" }
    /\ balances["A"] = 0
    /\ balances["D"] =
           LoanInterestLoop(2, [remainingBalance |-> U(500), totalInterest |-> 0,
                                months |-> 0, broke |-> FALSE],
                            MonthlyRate(U(24)), U(50)).remainingBalance

\* The interest of one month on the balances of the first n loans that are
\* not paid off and owe more than 0.01.
RECURSIVE ActiveInterest(_)
ActiveInterest(n) ==
    IF n = 0 THEN 0
    ELSE ActiveInterest(n - 1)
         + (IF /\ input.loans[n].loan_name \notin paidOffLoans
               /\ balances[input.loans[n].loan_name] > Cent
            THEN Mul(balances[input.loans[n].loan_name],
                     MonthlyRate(input.loans[n].annual_interest_rate))
            ELSE 0)

\* C26: within a call of calculateStrategyInterest the paid-off set only
\* grows; a loan marked paid off keeps a stored balance in [0, 0.01], which no
\* later month changes (no payment), and adds nothing to the interest of a
\* later month.
C26_PaidOffStaysPaidOff ==
    /\ [](pc \in { "avalanche", "snowball" } =>
            \A name \in paidOffLoans : balances[name] >= 0 /\ balances[name] <= Cent)
    /\ [][ MonthSimulated =>
             /\ paidOffLoans \subseteq paidOffLoans'
             /\ \A name \in paidOffLoans : balances'[name] = balances[name]
             /\ (\A i \in 1..Len(input.loans) : OnlyOfItsName(i)) =>
                    totalInterest' - totalInterest = ActiveInterest(Len(input.loans)) ]_vars

\* A was paid off in month 3 of the snowball run; two months later it is still
\* paid off with a balance of 0, while D is still being repaid.
C26_StillPaidOffLater ==
    /\ pc = "snowball"
    /\ input.loans = << Loan("D", 500, 24, 50), Loan("A", 50, 60, 20) >>
    /\ input.monthly_surplus = 0
    /\ months = 5
    /\ paidOffLoans = { "A" }
    /\ balances["A"] = 0
    /\ balances["D"] > Cent

C28_ReachesPrepaymentMonth ==
    LoanReturned =>
        /\ loanResult.new_tenure_months >= loanInput.prepaymentMonth
        /\ loanResult.new_tenure_months >= 1

\* The simulated total of the recommended strategy, and of the other one.
RecommendedInterest ==
    IF result.recommended_strategy = "avalanche"
    THEN avalancheInterest ELSE snowballInterest
OtherInterest ==
    IF result.recommended_strategy = "avalanche"
    THEN snowballInterest ELSE avalancheInterest

\* C29: with risk_tolerance medium or omitted the recommended strategy's
\* simulated total is at most the other strategy's, and avalanche is
\* recommended whenever the two totals are equal.
C29_MediumPicksCheaper ==
    Returned /\ input.risk_tolerance \in { "medium", "omitted" } =>
        /\ RecommendedInterest <= OtherInterest
        /\ avalancheInterest = snowballInterest =>
              result.recommended_strategy = "avalanche"

\* A medium risk tolerance, snowball cheaper by less than 5%: snowball is
\* recommended.
C29_MediumNearTieSnowball ==
    /\ Returned
    /\ input.risk_tolerance = "medium"
    /\ snowballInterest < avalancheInterest
    /\ ~Significant
    /\ result.recommended_strategy = "snowball"

\* C30: for every risk tolerance the simulated total of the recommended
\* strategy exceeds that of the other strategy by at most 5% of the smaller
\* of the two totals: the dearer strategy is recommended only in a near tie.
C30_DearerOnlyWithinFivePercent ==
    Returned =>
        (RecommendedInterest - OtherInterest) * 20
            <= Min(avalancheInterest, snowballInterest)

\* A low risk tolerance gets snowball recommended although avalanche is
\* cheaper, by less than 5%.
C30_LowRiskDearerSnowball ==
    /\ Returned
    /\ input.risk_tolerance = "low"
    /\ result.recommended_strategy = "snowball"
    /\ avalancheInterest < snowballInterest
    /\ (snowballInterest - avalancheInterest) * 20 <= avalancheInterest

=============================================================================
